---- MODULE Spec2Model ----
(***************************************************************************)
(* SJCast: the discovery stage (monitor.py) and the processing stage       *)
(* (process_videos.py), each modelled as one atomic run of its main().     *)
(*                                                                         *)
(* An UploadRecord is [id |-> i]; title, published_at and description are  *)
(* copied through unchanged by both stages and decide no branch.           *)
(* An Episode is [video_id, audio_url]; file_size and processed_at decide  *)
(* no branch either.  A Python None is the empty tuple <<>>: an absent     *)
(* --list is <<>> and --list N is <<N>>, last_check is <<>> or <<t>>,      *)
(* audio_url is <<>> or Url(id).                                           *)
(* tag_audio writes ID3 frames inside the artifact only; the artifact is   *)
(* modelled by its presence in the audio directory, which tagging keeps.   *)
(* feed.xml is rebuilt from the saved catalog after save_episodes and is   *)
(* not part of the state.                                                  *)
(*                                                                         *)
(* run holds what the finished invocation was given and what it did, until *)
(* the invoking shell collects its exit status (Return); a script starts   *)
(* only when no invocation is pending.                                     *)
(***************************************************************************)
EXTENDS Integers, Sequences, FiniteSets, TLC

VARIABLES
  state,       \* state.json: [seen_ids, last_check]
  episodes,    \* episodes.json: the catalog, a list of Episodes
  audio,       \* ids with an audio/<id>.mp3 on disk
  new_videos_file,  \* new_videos.json: whether it exists, and its list
  run          \* the invocation that has just finished, or idle

vars == <<state, episodes, audio, new_videos_file, run>>

\* ---------------------------------------------------------------- bounds
MaxLen == 2     \* longest upload-source response / input list
MaxSeen == 3    \* longest seen_ids list the model lets state.json hold
MaxTime == 2    \* distinct clock readings
MaxList == 1    \* largest N given to --list

\* ------------------------------------------------------ program constants
API_MAX == 50       \* min(max_results, 50)
DEFAULT_MAX == 50   \* fetch_recent_uploads(youtube, max_results=50)

Ids == {"a", "b"}
NULL == <<>>

Min(x, y) == IF x <= y THEN x ELSE y

Records == [id : Ids]

RECURSIVE ListsUpTo(_, _)
ListsUpTo(S, n) ==
  IF n = 0 THEN {<<>>}
  ELSE LET shorter == ListsUpTo(S, n - 1)
       IN  shorter \cup {Append(l, x) : l \in {s \in shorter : Len(s) = n - 1}, x \in S}

Responses == ListsUpTo(Records, MaxLen)
Times == 1..MaxTime
Args == [list : {<<>>} \cup {<<n>> : n \in 0..MaxList},
         init : BOOLEAN, json : BOOLEAN, all : BOOLEAN]

Range(s) == {s[i] : i \in 1..Len(s)}
IdsOf(videos) == [i \in 1..Len(videos) |-> videos[i].id]

\* =================================================================
\* monitor.py
\* =================================================================

\* load_state() when state.json does not exist
DefaultState == [seen_ids |-> <<>>, last_check |-> NULL]

\* the first min(max_results, 50) items of the uploads playlist
fetch_recent_uploads(src, max_results) ==
  SubSeq(src, 1, Min(Min(max_results, API_MAX), Len(src)))

\* variant: the seen list is not consulted
check_for_new_videos_unfiltered(src, st) ==
  [new_videos |-> fetch_recent_uploads(src, DEFAULT_MAX), state |-> st]

\* the records of the response whose id is not in the seen list; the
\* state dict it was handed is returned next to the result
check_for_new_videos(src, st) ==
  LET recent == fetch_recent_uploads(src, DEFAULT_MAX)
      seen_ids == Range(st.seen_ids)
  IN  [new_videos |-> SelectSeq(recent, LAMBDA v : v.id \notin seen_ids),
       state |-> st]

\* Python truthiness of args.list: None and 0 are both false
ListGiven(args) == args.list # <<>> /\ args.list[1] # 0

\* which branch of main() the arguments select
Mode(args) ==
  IF ListGiven(args) THEN "list"
  ELSE IF args.init THEN "init"
  ELSE IF args.all THEN "all"
  ELSE "check"

\* variant: the status does not depend on the list
exit_code_always_zero(new_videos) == 0

\* sys.exit(0 if new_videos else 1)
exit_code(new_videos) == IF new_videos # <<>> THEN 0 ELSE 1

\* --list: report, return, state untouched
list_mode(args, src, st) ==
  [state |-> st, out |-> fetch_recent_uploads(src, args.list[1]), exit |-> 0]

\* --init: seen_ids is replaced by the ids of the current response
init_mode(src, t, st) ==
  LET videos == fetch_recent_uploads(src, DEFAULT_MAX)
  IN  [state |-> [seen_ids |-> IdsOf(videos), last_check |-> <<t>>],
       out |-> <<>>, exit |-> 0]

\* --all reports every recent video, otherwise only the unseen ones
select_new_videos(args, src, st) ==
  IF args.all THEN [new_videos |-> fetch_recent_uploads(src, DEFAULT_MAX), state |-> st]
  ELSE check_for_new_videos(src, st)

\* variant: new ids replace the seen list instead of extending it
update_state_overwrite(new_videos, t, st) ==
  [state |-> [seen_ids |-> IF new_videos # <<>> THEN IdsOf(new_videos)
                           ELSE st.seen_ids,
              last_check |-> <<t>>],
   out |-> new_videos, exit |-> exit_code(new_videos)]

\* interactive mode: extend seen_ids, stamp last_check, save, exit
update_state(new_videos, t, st) ==
  [state |-> [seen_ids |-> IF new_videos # <<>> THEN st.seen_ids \o IdsOf(new_videos)
                           ELSE st.seen_ids,
              last_check |-> <<t>>],
   out |-> new_videos, exit |-> exit_code(new_videos)]

\* --json: print and exit, state.json is not written
json_mode(new_videos, t, st) ==
  [state |-> st, out |-> new_videos, exit |-> exit_code(new_videos)]

\* main(): api = "error" is a missing key or an HttpError of the query,
\* both of which end the run with status 1 before anything is written
monitor_main(args, src, t, api, st) ==
  IF api = "error" THEN [state |-> st, out |-> <<>>, exit |-> 1]
  ELSE IF ListGiven(args) THEN list_mode(args, src, st)
  ELSE IF args.init THEN init_mode(src, t, st)
  ELSE LET sel == select_new_videos(args, src, st)
       IN  IF args.json THEN json_mode(sel.new_videos, t, sel.state)
           ELSE update_state(sel.new_videos, t, sel.state)

\* what a run given --json leaves in a file its standard output is redirected
\* to: the JSON list in list, check and all mode; the key-missing text or
\* nothing when the query failed, and the prose of init mode, none of which
\* json.load accepts
stdout_file(mode, api, out) ==
  IF api = "ok" /\ mode # "init"
  THEN [exists |-> TRUE, valid |-> TRUE, videos |-> out]
  ELSE [exists |-> TRUE, valid |-> FALSE, videos |-> <<>>]

Monitor(args, src, t, api) ==
  LET r == monitor_main(args, src, t, api, state)
  IN  /\ run.stage = "idle"
      /\ Len(r.state.seen_ids) <= MaxSeen
      /\ state' = r.state
      /\ run' = [stage |-> "monitor", args |-> args, mode |-> Mode(args),
                 api |-> api, src |-> src, out |-> r.out, exit |-> r.exit,
                 pre |-> state]
      /\ UNCHANGED <<episodes, audio, new_videos_file>>

MonitorRun ==
  /\ run.stage = "idle"
  /\ \E args \in Args, src \in Responses, t \in Times, api \in {"ok", "error"} :
       Monitor(args, src, t, api)

\* =================================================================
\* process_videos.py
\* =================================================================

\* the outcome noted for a record the run never handed to the outside world
NotConsulted ==
  [fetch |-> "unused", artifact |-> FALSE, tag |-> "unused", remote |-> "unused"]

\* what the outside world does to one record.
\*   fetch: subprocess.run of the fetch tool returns with status 0 ("exit0")
\*     or non-zero ("exit_nonzero"), or raises ("raised": the tool cannot be
\*     started, or its output cannot be decoded); "unused" when the artifact
\*     is already on disk and the tool is not called.
\*   artifact: whether the tool left audio/<id>.mp3 behind, whatever its end.
\*   tag: with mutagen installed, tagging the artifact succeeds ("ok") or
\*     raises ("raise"); "unused" when there is no artifact to tag.
\*   remote: with SDK and credentials, the upload succeeds ("ok") or an SDK
\*     call raises ("error"); "unused" when the record does not get that far.
Outcomes ==
  {o \in [fetch : {"exit0", "exit_nonzero", "raised", "unused"}, artifact : BOOLEAN,
          tag : {"ok", "raise", "unused"}, remote : {"ok", "error", "unused"}] :
     LET usable == o.fetch = "unused" \/ (o.fetch = "exit0" /\ o.artifact)
     IN  /\ o.fetch = "unused" => ~o.artifact
         /\ o.tag = "unused" <=> ~usable
         /\ o.remote = "unused" <=> (~usable \/ o.tag = "raise")}
  \cup {NotConsulted}

\* per run: whether mutagen and b2sdk imported, whether the B2 credentials
\* are set
Envs == [has_mutagen : BOOLEAN, has_b2 : BOOLEAN, creds : BOOLEAN]

\* the outcomes a record can meet: the tool is called only when the artifact
\* is not on disk, tagging can raise only with mutagen, remote storage is
\* contacted only with SDK and credentials
OutcomesAsked(env, on_disk) ==
  {o \in Outcomes \ {NotConsulted} :
     /\ on_disk <=> o.fetch = "unused"
     /\ o.tag = "raise" => env.has_mutagen
     /\ o.remote = "error" => (env.has_b2 /\ env.creds)}

\* f"{base_url}/episodes/{video_id}.mp3"
Url(video_id) == <<"episodes", video_id>>

\* returns whether a path came back (None otherwise) and the audio directory;
\* an artifact already on disk is reused and the tool is not called, an
\* artifact the tool leaves behind stays on disk whatever its end, and
\* subprocess.run is not guarded, so its exception leaves the function
download_audio(video_id, files, o) ==
  IF video_id \in files THEN [raised |-> FALSE, path |-> TRUE, audio |-> files]
  ELSE LET after == IF o.artifact THEN files \cup {video_id} ELSE files
       IN  IF o.fetch = "raised" THEN [raised |-> TRUE, path |-> FALSE, audio |-> after]
           ELSE IF o.fetch # "exit0" THEN [raised |-> FALSE, path |-> FALSE, audio |-> after]
           ELSE [raised |-> FALSE, path |-> TRUE, audio |-> after]

\* skipped without mutagen; the second MP3(...) and save() are not guarded,
\* so an artifact mutagen cannot read raises out of the function
tag_audio(env, o) ==
  IF ~env.has_mutagen THEN [raised |-> FALSE]
  ELSE [raised |-> o.tag = "raise"]

\* None without SDK or credentials; the SDK calls are not guarded, so a
\* remote failure raises out of the function
upload_to_b2(video_id, env, o) ==
  IF ~env.has_b2 THEN [raised |-> FALSE, url |-> NULL]
  ELSE IF ~env.creds THEN [raised |-> FALSE, url |-> NULL]
  ELSE IF o.remote = "error" THEN [raised |-> TRUE, url |-> NULL]
  ELSE [raised |-> FALSE, url |-> Url(video_id)]

\* one record: episode is <<>> for None, <<e>> for an episode dict; raised
\* when the fetch, the tagging or the upload raised
process_video(video_info, files, o, env) ==
  LET video_id == video_info.id
      d == download_audio(video_id, files, o)
  IN  IF d.raised
      THEN [episode |-> <<>>, audio |-> d.audio, raised |-> TRUE, what |-> "raised"]
      ELSE IF ~d.path \/ video_id \notin d.audio
      THEN [episode |-> <<>>, audio |-> d.audio, raised |-> FALSE, what |-> "fetch_failed"]
      ELSE IF tag_audio(env, o).raised
      THEN [episode |-> <<>>, audio |-> d.audio, raised |-> TRUE, what |-> "raised"]
      ELSE LET u == upload_to_b2(video_id, env, o)
           IN  IF u.raised
               THEN [episode |-> <<>>, audio |-> d.audio, raised |-> TRUE, what |-> "raised"]
               ELSE [episode |-> <<[video_id |-> video_id, audio_url |-> u.url]>>,
                     audio |-> IF u.url # NULL THEN d.audio \ {video_id} ELSE d.audio,
                     raised |-> FALSE,
                     what |-> IF u.url # NULL THEN "added_url" ELSE "added_null"]

\* variant: nothing counts as already processed
existing_ids_none(eps) == {}

\* existing_ids = {ep["video_id"] for ep in episodes}, computed once
existing_ids(eps) == {eps[i].video_id : i \in 1..Len(eps)}

\* the loop of main() from record i on; trace says what happened to each
\* record ("unreached" after an exception left the loop)
RECURSIVE process_loop(_, _, _, _, _, _, _, _)
process_loop(i, new_videos, outs, env, existing, eps, files, trace) ==
  IF i > Len(new_videos)
  THEN [episodes |-> eps, audio |-> files, trace |-> trace, raised |-> FALSE]
  ELSE IF new_videos[i].id \in existing
  THEN process_loop(i + 1, new_videos, outs, env, existing, eps, files,
                    Append(trace, "skipped"))
  ELSE LET r == process_video(new_videos[i], files, outs[i], env)
       IN  IF r.raised
           THEN [episodes |-> eps, audio |-> r.audio, raised |-> TRUE,
                 trace |-> Append(trace, r.what)
                           \o [k \in 1..(Len(new_videos) - i) |-> "unreached"]]
           ELSE process_loop(i + 1, new_videos, outs, env, existing,
                             eps \o r.episode, r.audio, Append(trace, r.what))

\* main(): file is new_videos.json (whether it exists, whether it parses,
\* its list).  json.load is not guarded.  The catalog is written only when
\* the loop runs to its end.
process_main(file, outs, env, eps, files) ==
  IF ~file.exists
  THEN [episodes |-> eps, audio |-> files, trace |-> <<>>, status |-> "no_file"]
  ELSE IF ~file.valid
  THEN [episodes |-> eps, audio |-> files, trace |-> <<>>, status |-> "aborted"]
  ELSE IF file.videos = <<>>
  THEN [episodes |-> eps, audio |-> files, trace |-> <<>>, status |-> "no_videos"]
  ELSE LET r == process_loop(1, file.videos, outs, env, existing_ids(eps), eps, files, <<>>)
       IN  IF r.raised
           THEN [episodes |-> eps, audio |-> r.audio, trace |-> r.trace, status |-> "aborted"]
           ELSE [episodes |-> r.episodes, audio |-> r.audio, trace |-> r.trace,
                 status |-> "saved"]

\* the outcomes the records from i on can meet in one run: none for a record
\* that is skipped or that the loop does not reach
RECURSIVE WorldsFrom(_, _, _, _, _)
WorldsFrom(i, new_videos, env, existing, files) ==
  IF i > Len(new_videos) THEN {<<>>}
  ELSE IF new_videos[i].id \in existing
  THEN {<<NotConsulted>> \o w : w \in WorldsFrom(i + 1, new_videos, env, existing, files)}
  ELSE UNION {
         LET r == process_video(new_videos[i], files, o, env)
         IN  IF r.raised
             THEN {<<o>> \o [k \in 1..(Len(new_videos) - i) |-> NotConsulted]}
             ELSE {<<o>> \o w : w \in WorldsFrom(i + 1, new_videos, env, existing, r.audio)} :
         o \in OutcomesAsked(env, new_videos[i].id \in files)}

Process(outs, env) ==
  LET r == process_main(new_videos_file, outs, env, episodes, audio)
  IN  /\ run.stage = "idle"
      /\ episodes' = r.episodes
      /\ audio' = r.audio
      /\ run' = [stage |-> "process", file |-> new_videos_file,
                 videos |-> new_videos_file.videos, outs |-> outs, env |-> env,
                 trace |-> r.trace, status |-> r.status,
                 pre |-> episodes, pre_audio |-> audio,
                 again |-> run.last = "process"]
      /\ UNCHANGED <<state, new_videos_file>>

ProcessRun ==
  /\ run.stage = "idle"
  /\ \E env \in Envs :
       \E outs \in WorldsFrom(1, new_videos_file.videos, env, existing_ids(episodes), audio) :
         Process(outs, env)

\* new_videos.json is (re)written from outside the two scripts
WriteInput ==
  /\ run.stage = "idle"
  /\ \/ \E videos \in Responses :
            new_videos_file' = [exists |-> TRUE, valid |-> TRUE, videos |-> videos]
     \/ new_videos_file' = [exists |-> TRUE, valid |-> FALSE, videos |-> <<>>]
  /\ run' = [stage |-> "idle", last |-> "write"]
  /\ UNCHANGED <<state, episodes, audio>>

\* the invoking shell collects the exit status of the finished script
Return ==
  /\ run.stage # "idle"
  /\ run' = [stage |-> "idle", last |-> run.stage]
  /\ UNCHANGED <<state, episodes, audio, new_videos_file>>

\* the scheduler's pipeline: a discovery run in check or all mode, whose
\* --json output is redirected to new_videos.json for the processing run
DiscoveryRun ==
  /\ run.stage = "idle"
  /\ \E args \in {a \in Args : a.list = <<>> /\ ~a.init}, src \in Responses,
        t \in Times, api \in {"ok", "error"} :
       Monitor(args, src, t, api)

Redirect ==
  /\ run.stage = "monitor"
  /\ run.args.json
  /\ new_videos_file # stdout_file(run.mode, run.api, run.out)
  /\ new_videos_file' = stdout_file(run.mode, run.api, run.out)
  /\ UNCHANGED <<state, episodes, audio, run>>

Init ==
  /\ state = DefaultState
  /\ episodes = <<>>
  /\ audio = {}
  /\ new_videos_file = [exists |-> FALSE, valid |-> FALSE, videos |-> <<>>]
  /\ run = [stage |-> "idle", last |-> "none"]

NextMonitor == MonitorRun \/ Return
SpecMonitor == Init /\ [][NextMonitor]_vars

NextProcess == WriteInput \/ ProcessRun \/ Return
SpecProcess == Init /\ [][NextProcess]_vars

Next == DiscoveryRun \/ Redirect \/ ProcessRun \/ Return
Spec == Init /\ [][Next]_vars

\* =================================================================
\* Properties
\* =================================================================

MonitorRan == run.stage = "monitor"
ProcessRan == run.stage = "process"

\* the video_ids that occur in a catalog
CatalogIds(catalog) == {e.video_id : e \in Range(catalog)}

\* positions of src whose id is not seen
KeptIdx(src, seen) == {i \in 1..Len(src) : src[i].id \notin seen}

\* out is src restricted to the unseen records, in src's order
IsUnseenOf(out, src, seen) ==
  LET K == KeptIdx(src, seen)
  IN  /\ Len(out) = Cardinality(K)
      /\ \A i \in K : out[Cardinality({j \in K : j <= i})] = src[i]

\* C1: in check mode the reported list is exactly the records of the
\* response whose id is not in seen_ids, in the response's order, and the
\* check itself leaves the state as loaded (what is saved afterwards is the
\* loaded state, untouched under --json and extended by the reported ids
\* otherwise).
C1_CheckReturnsUnseenInOrder ==
  (MonitorRan /\ run.mode = "check" /\ run.api = "ok") =>
    /\ IsUnseenOf(run.out, run.src, Range(run.pre.seen_ids))
    /\ IF run.args.json THEN state = run.pre
       ELSE state.seen_ids = run.pre.seen_ids \o IdsOf(run.out)

C1_Witness ==
  /\ MonitorRan /\ run.mode = "check" /\ run.api = "ok"
  /\ run.pre.seen_ids # <<>>
  /\ Len(run.src) = 2
  /\ Len(run.out) = 1

\* C2 as stated: with --json, a run in check, all or init mode leaves the
\* persisted state as it was, and with zero new items exits with status 1.
C2_JsonRunLeavesState ==
  (MonitorRan /\ run.args.json /\ run.mode \in {"check", "all", "init"}) =>
    /\ state = run.pre
    /\ (run.mode # "init" /\ run.out = <<>>) => run.exit = 1

\* C7 as stated: whatever the mode, every id in seen_ids before a discovery
\* run is in seen_ids after it.
C7_Original ==
  MonitorRan => Range(run.pre.seen_ids) \subseteq Range(state.seen_ids)

\* C7 amended: in list, check and all mode every id in seen_ids before the
\* run is in seen_ids after it; init mode replaces seen_ids by the ids of
\* the current response.
C7_SeenIdsKeptExceptInit ==
  MonitorRan =>
    /\ run.mode # "init" => Range(run.pre.seen_ids) \subseteq Range(state.seen_ids)
    /\ (run.mode = "init" /\ run.api = "ok") => state.seen_ids = IdsOf(run.src)

C7_Witness ==
  /\ MonitorRan /\ run.mode = "check" /\ ~run.args.json
  /\ run.pre.seen_ids # <<>>
  /\ run.out # <<>>
  /\ Len(state.seen_ids) > Len(run.pre.seen_ids)

\* C8: in check and all mode, with or without --json, the exit status is 0
\* exactly when the reported list is non-empty and 1 exactly when it is empty.
C8_ExitStatusTellsNewItems ==
  (MonitorRan /\ run.mode \in {"check", "all"}) =>
    /\ run.exit = 0 <=> run.out # <<>>
    /\ run.exit = 1 <=> run.out = <<>>

C8_Witness ==
  /\ MonitorRan /\ run.mode \in {"check", "all"}
  /\ run.api = "ok"
  /\ run.out # <<>>
  /\ run.exit = 0

\* C9 as stated: a run given --list N, for every N including 0 and whatever
\* the other flags, leaves the persisted state as it was.
C9_ListNeverTouchesState ==
  (MonitorRan /\ run.args.list # <<>>) => state = run.pre

\* C10 as stated: an id that a check or all run adds to seen_ids already has
\* an Episode in the catalog.
C10_SeenOnlyAfterConsumption ==
  (MonitorRan /\ run.mode \in {"check", "all"}) =>
    \A id \in Range(state.seen_ids) \ Range(run.pre.seen_ids) :
      id \in CatalogIds(episodes)

\* C4 as stated: no two episodes of the persisted catalog share a video_id.
C4_VideoIdIsUniqueKey ==
  \A i, j \in 1..Len(episodes) :
    i # j => episodes[i].video_id # episodes[j].video_id

\* the upload step failed for record i: no URL came back, or the SDK raised
UploadFailedAt(i) ==
  \/ run.trace[i] = "added_null"
  \/ run.trace[i] = "raised" /\ run.outs[i].remote = "error"

\* C5 as stated: a record whose fetch succeeds and whose upload fails in any
\* way gets an Episode with a null audio_url, keeps its local artifact, the
\* records after it are still processed and the catalog is saved.
C5_UploadFailureNeverFails ==
  ProcessRan =>
    \A i \in 1..Len(run.trace) :
      UploadFailedAt(i) =>
        /\ run.trace[i] = "added_null"
        /\ [video_id |-> run.videos[i].id, audio_url |-> NULL] \in Range(episodes)
        /\ run.videos[i].id \in audio
        /\ \A j \in 1..Len(run.trace) : run.trace[j] # "unreached"
        /\ run.status = "saved"

\* C3 as stated: a second processing run over the same catalog-after-first-run
\* and the same list leaves the catalog as the first run left it.
C3_Original ==
  (ProcessRan /\ run.again) => episodes = run.pre

\* C3 amended: the second run leaves the catalog unchanged when every record
\* of the list is in the catalog after the first run (no fetch failed and no
\* exception ended the first run); every record is then skipped.
C3_SecondRunSkipsAll ==
  (/\ ProcessRan /\ run.again
   /\ \A i \in 1..Len(run.videos) : run.videos[i].id \in CatalogIds(run.pre)) =>
    /\ episodes = run.pre
    /\ \A i \in 1..Len(run.trace) : run.trace[i] = "skipped"

C3_Witness ==
  /\ ProcessRan /\ run.again
  /\ Len(run.videos) = 2
  /\ \A i \in 1..Len(run.videos) : run.videos[i].id \in CatalogIds(run.pre)
  /\ run.status = "saved"
  /\ episodes = run.pre

\* s without its i-th element
Without(s, i) == SubSeq(s, 1, i - 1) \o SubSeq(s, i + 1, Len(s))

\* the run that has just finished, replayed from the same catalog and audio
\* directory on the list without record i
ReplayWithout(i) ==
  process_main([run.file EXCEPT !.videos = Without(run.videos, i)],
               Without(run.outs, i), run.env, run.pre, run.pre_audio)

\* the run went as if record i had not
\* been in the list: same catalog, same audio directory, same fate of the
\* other records
FailedFetchIsolated(i) ==
  LET r == ReplayWithout(i)
  IN  /\ episodes = r.episodes
      /\ audio = r.audio
      /\ Without(run.trace, i) = r.trace

\* C6 as stated: a record whose fetch fails adds nothing, the others are
\* processed as if it were not in the list, its id is not in the persisted
\* catalog afterwards, and a later run given the record fetches again (it is
\* not skipped, and no artifact stands in for the fetch).
C6_FetchFailureIsolated ==
  ProcessRan =>
    \A i \in 1..Len(run.trace) :
      run.trace[i] = "fetch_failed" =>
        /\ FailedFetchIsolated(i)
        /\ run.videos[i].id \notin CatalogIds(episodes)
        /\ run.videos[i].id \notin audio
====
